---- MODULE Spec2Model ----
(***************************************************************************)
(* Model of web_scraper_cli/main.py: the `scrape` and `install` commands,  *)
(* the subprocess contract (environment, exit code, results file) and the  *)
(* relocation of download artefacts.                                        *)
(*                                                                         *)
(* The scraper subprocess (scraper.js) and `npm install` are opaque: their *)
(* exit status and what they write under <scraperDir>/downloads are        *)
(* nondeterministic inputs of the steps that spawn them.                   *)
(*                                                                         *)
(* File system: an entry of the downloads directory is absent, a regular   *)
(* file or a directory.  The output directory given with -o is either the  *)
(* downloads directory itself or another directory, which holds regular    *)
(* files only; output_exists and output_files describe that other one.     *)
(***************************************************************************)
EXTENDS Integers, Sequences, FiniteSets, TLC

VARIABLES
    pc,            \* position of the running command
    cmd,           \* "none" | "scrape" | "install"
    invocation,    \* number of the current CLI invocation
    url,           \* scrape(): url argument
    download,      \* scrape(): --download
    debug,         \* scrape(): --debug
    output,        \* scrape(): -o/--output, the directory it names
    node_on_path,  \* shutil.which("node") is not None
    node_modules,  \* state of SCRAPER_DIR/node_modules
    environ,       \* os.environ of the CLI process
    env,           \* run_scraper(): env passed to subprocess.run
    downloads,     \* SCRAPER_DIR/downloads: entry name -> kind
    results_text,  \* content of downloads/scrape-results.json
    output_exists, \* output_dir exists
    output_files,  \* names of the files in output_dir
    returncode,    \* run_scraper(): <<result.returncode>> (<<>> until the call returns)
    data,          \* value returned by json.load / run_scraper (<<>> is None)
    moved_files,   \* move_downloads_to_output(): moved_files
    npm_calls,     \* subprocess.run(["npm", "install"]) calls of this invocation
    npm_returncode, \* install_npm_dependencies(): <<result.returncode>> (<<>> if none)
    node_calls,    \* subprocess.run(["node", ...]) calls of this invocation
    exit_code,     \* <<process exit status>> (<<>> while running)
    displayed,     \* what display_results printed (<<>> if not called)
    failure,       \* history: which failure ended the invocation
    fresh          \* history: the results file and the regular files among the
                   \* artefacts, as far as this invocation's subprocess wrote them

vars == <<pc, cmd, invocation, url, download, debug, output, node_on_path, node_modules,
          environ, env, downloads, results_text, output_exists, output_files,
          returncode, data, moved_files, npm_calls, npm_returncode, node_calls,
          exit_code, displayed, failure, fresh>>

(***************************************************************************)
(* Bounds                                                                  *)
(***************************************************************************)
MaxInvocations == 2

(***************************************************************************)
(* Program constants                                                       *)
(***************************************************************************)
TIMEOUT == 300

RESULTS_NAME == "scrape-results.json"
SCREENSHOT_NAME == "page-screenshot.png"
EXCLUDED == {RESULTS_NAME, SCREENSHOT_NAME}

(***************************************************************************)
(* Input domains                                                           *)
(***************************************************************************)
Urls == {"https://example.com", "http://example.com", "ftp://example.com",
         "HTTP://example.com", "http:/example.com", "example.com", ""}

\* directories -o/--output may name: one that is not the downloads directory
\* (the default is one), or SCRAPER_DIR/downloads itself
ELSEWHERE == "elsewhere"
DOWNLOADS_DIR == "downloads"
OutputDirs == {ELSEWHERE, DOWNLOADS_DIR}

\* command lines of scrape: every URL without options; the https URL with
\* every combination of --download and --debug; and the https URL with -o
\* naming the downloads directory, with and without --download
Requests ==
    {[url |-> u, download |-> FALSE, debug |-> FALSE, output |-> ELSEWHERE] :
         u \in Urls}
    \cup {[url |-> "https://example.com", download |-> dl, debug |-> dbg,
           output |-> ELSEWHERE] : dl \in BOOLEAN, dbg \in BOOLEAN}
    \cup {[url |-> "https://example.com", download |-> dl, debug |-> FALSE,
           output |-> DOWNLOADS_DIR] : dl \in BOOLEAN}

\* states of SCRAPER_DIR/node_modules; npm install may leave any of them,
\* whatever the directory was before and whatever npm's outcome
NodeModulesStates == {"absent", "empty", "puppeteer"}

ArtefactNames == {"a.pdf", "b.zip"}
Names == EXCLUDED \cup ArtefactNames

\* kinds of directory entry the subprocess may create under a name
KindsOf(name) == IF name = "b.zip" THEN {"file", "dir"} ELSE {"file"}

\* elapsed wall-clock seconds of the scraper subprocess
Durations == {299, 301}

EnvNames == {"DOWNLOAD", "DEBUG", "HOME"}
EmptyEnv == [n \in {} |-> ""]
\* environments of the CLI process: HOME always set; DOWNLOAD and DEBUG unset,
\* already "true", or DOWNLOAD set to something else
Environs ==
    { [HOME |-> "/root"],
      [HOME |-> "/root", DOWNLOAD |-> "true", DEBUG |-> "true"],
      [HOME |-> "/root", DOWNLOAD |-> "false"],
      [HOME |-> "/root", DEBUG |-> "true"] }

\* texts the subprocess may leave in scrape-results.json
ResultTexts == {
    "{}",
    "{\"images\":[]}",
    "{\"title\":\"Board X\",\"files\":[{\"name\":\"a.pdf\"}],\"images\":[],\"links\":[]}",
    "{\"files\":[{\"size\":3}],\"cards\":[{}]}",
    "{\"files\":[\"a.pdf\"]}",
    "{\"files\":null}",
    "{\"title\":\"[/x]\",\"files\":[]}",
    "null",
    "[1]",
    "\"x\"",
    "5",
    "{\"title\":\"Board X\"" }

(***************************************************************************)
(* Pure helpers                                                            *)
(***************************************************************************)
\* str.startswith(prefix)
startswith(s, prefix) ==
    Len(s) >= Len(prefix) /\ SubSeq(s, 1, Len(prefix)) = prefix

\* mutant: the prefixes lose their "://"
url_is_valid_noslash(u) == startswith(u, "http:") \/ startswith(u, "https:")

\* scrape(): not url.startswith(("http://", "https://")) is the rejection test
url_is_valid(u) == startswith(u, "http://") \/ startswith(u, "https://")

\* mutant: the Node.js check always passes
check_node_installed_always == TRUE

\* check_node_installed()
check_node_installed == node_on_path

\* mutant: the dependency check never passes, npm install runs every time
check_npm_dependencies_never == FALSE

\* check_npm_dependencies(): node_modules.exists() and (node_modules / "puppeteer").exists()
check_npm_dependencies ==
    node_modules \in {"empty", "puppeteer"} /\ node_modules = "puppeteer"

\* env[name] = value on a dict
SetItem(d, name, value) ==
    [n \in (DOMAIN d) \cup {name} |-> IF n = name THEN value ELSE d[n]]

\* mutant: the environment is built from scratch instead of from os.environ
build_env_scratch(parent, dl, dbg) ==
    LET e0 == EmptyEnv
        e1 == IF dl THEN SetItem(e0, "DOWNLOAD", "true") ELSE e0
        e2 == IF dbg THEN SetItem(e1, "DEBUG", "true") ELSE e1
    IN e2

\* run_scraper(): the environment built for the subprocess
build_env(parent, dl, dbg) ==
    LET e0 == parent
        e1 == IF dl THEN SetItem(e0, "DOWNLOAD", "true") ELSE e0
        e2 == IF dbg THEN SetItem(e1, "DEBUG", "true") ELSE e1
    IN e2

(***************************************************************************)
(* JSON values.  A value is [type, size, keys, nulls, val]: type is        *)
(* "object", "array", "string", "number" or "null"; size is the number of  *)
(* keys of an object, the length of an array or a string, the value of a   *)
(* number; keys are the keys an object has, nulls those of them whose      *)
(* value is null, and val carries a value for every recognised key (the    *)
(* value of an absent or null key is never read).  An element of "files"   *)
(* or "cards" is [is_dict, has_name, name]: a dict with or without a       *)
(* "name", or a string (is_dict false).                                    *)
(***************************************************************************)
NoVal == [title |-> "", cards |-> <<>>, files |-> <<>>, images |-> <<>>, links |-> <<>>]
JsonObject(keys, nulls, val) ==
    [type |-> "object", size |-> Cardinality(keys), keys |-> keys, nulls |-> nulls,
     val |-> val]
JsonScalar(type, size) ==
    [type |-> type, size |-> size, keys |-> {}, nulls |-> {}, val |-> NoVal]
JsonNull == JsonScalar("null", 0)
JSONDecodeError == JsonScalar("JSONDecodeError", 0)
Dict(has_name, name) == [is_dict |-> TRUE, has_name |-> has_name, name |-> name]
Str(text) == [is_dict |-> FALSE, has_name |-> FALSE, name |-> text]

\* json.load on the texts of ResultTexts
json_load(text) ==
    CASE text = "{}" -> JsonObject({}, {}, NoVal)
      [] text = "{\"images\":[]}" -> JsonObject({"images"}, {}, NoVal)
      [] text = "{\"title\":\"Board X\",\"files\":[{\"name\":\"a.pdf\"}],\"images\":[],\"links\":[]}" ->
            JsonObject({"title", "files", "images", "links"}, {},
                       [NoVal EXCEPT !.title = "Board X",
                                     !.files = <<Dict(TRUE, "a.pdf")>>])
      [] text = "{\"files\":[{\"size\":3}],\"cards\":[{}]}" ->
            JsonObject({"files", "cards"}, {},
                       [NoVal EXCEPT !.files = <<Dict(FALSE, "")>>,
                                     !.cards = <<Dict(FALSE, "")>>])
      [] text = "{\"files\":[\"a.pdf\"]}" ->
            JsonObject({"files"}, {}, [NoVal EXCEPT !.files = <<Str("a.pdf")>>])
      [] text = "{\"files\":null}" -> JsonObject({"files"}, {"files"}, NoVal)
      [] text = "{\"title\":\"[/x]\",\"files\":[]}" ->
            JsonObject({"title", "files"}, {}, [NoVal EXCEPT !.title = "[/x]"])
      [] text = "null" -> JsonNull
      [] text = "[1]" -> JsonScalar("array", 1)
      [] text = "\"x\"" -> JsonScalar("string", 1)
      [] text = "5" -> JsonScalar("number", 5)
      [] OTHER -> JSONDecodeError

\* bool(data): None is false; a dict, a list or a string is true iff it is not
\* empty, a number iff it is not zero
truthy(obj) == obj.type # "null" /\ obj.size # 0

\* data.get(key, default) is None
get_is_none(obj, key) == key \in obj.nulls

\* data.get(key, default), when it is not None
dict_get(obj, key, default) == IF key \in obj.keys THEN obj.val[key] ELSE default

\* rich markup: the text holds a closing tag "[/...]".  Rendering
\* "[bold]" + text + "[/bold]" (or [green]) raises MarkupError for such a
\* text when the text itself opens no tag and escapes no bracket.
closes_tag(text) ==
    \E i \in 1..Len(text) : \E j \in (i + 2)..Len(text) :
        /\ SubSeq(text, i, i + 1) = "[/"
        /\ SubSeq(text, j, j) = "]"
        /\ \A k \in (i + 1)..(j - 1) : SubSeq(text, k, k) # "["

\* display_results(data, output_dir, downloaded): what is printed (shown) and
\* the exception that ends it (raised).  data.get on a value that is not a dict
\* raises AttributeError and the rendering of a title with a stray closing tag
\* MarkupError, both before anything is printed; otherwise the title panel is
\* printed first.  len() of a null "files", "images" or "links" raises
\* TypeError before the table is printed; f.get on an element of "files" that
\* is not a dict raises AttributeError, and the rendering of a name with a
\* stray closing tag MarkupError, before the tree and the status line are
\* printed.
display_results(obj, downloaded) ==
    LET cards  == IF get_is_none(obj, "cards") THEN <<>> ELSE dict_get(obj, "cards", <<>>)
        files  == dict_get(obj, "files", <<>>)
        images == dict_get(obj, "images", <<>>)
        links  == dict_get(obj, "links", <<>>)
        title  == IF get_is_none(obj, "title") THEN "None"
                  ELSE dict_get(obj, "title", "Unknown Page")
        names  == [i \in 1..Len(files) |->
                      IF files[i].has_name THEN files[i].name ELSE "unknown"]
        nothing == [title |-> <<>>, rows |-> <<>>, tree |-> <<>>, status |-> "none"]
        rows   == (IF cards # <<>> THEN << <<"Cards found", Len(cards)>> >> ELSE <<>>)
                   \o << <<"Files found", Len(files)>>,
                         <<"Images found", Len(images)>>,
                         <<"Links found", Len(links)>> >>
    IN IF obj.type # "object"
       THEN [shown |-> nothing, raised |-> "AttributeError"]
       ELSE IF closes_tag(title)
       THEN [shown |-> nothing, raised |-> "MarkupError"]
       ELSE IF \E k \in {"files", "images", "links"} : get_is_none(obj, k)
       THEN [shown |-> [nothing EXCEPT !.title = <<title>>], raised |-> "TypeError"]
       ELSE IF \E i \in 1..Len(files) : ~files[i].is_dict
       THEN [shown |-> [nothing EXCEPT !.title = <<title>>, !.rows = rows],
             raised |-> "AttributeError"]
       ELSE IF \E i \in 1..Len(files) : closes_tag(names[i])
       THEN [shown |-> [nothing EXCEPT !.title = <<title>>, !.rows = rows],
             raised |-> "MarkupError"]
       ELSE [shown |->
               [ title |-> <<title>>,
                 rows  |-> rows,
                 tree  |-> names,
                 status |-> IF downloaded /\ files # <<>> THEN "downloaded"
                            ELSE IF files # <<>> THEN "tip" ELSE "none" ],
             raised |-> "none"]

(***************************************************************************)
(* Relocation                                                              *)
(***************************************************************************)
\* the orders in which source_dir.iterdir() may yield the entries of a directory
IterOrders(dir) ==
    LET present == {n \in DOMAIN dir : dir[n] # "absent"}
    IN {o \in [1..Cardinality(present) -> present] :
            \A i, j \in 1..Cardinality(present) : o[i] = o[j] => i = j}

\* Path.is_file() on an entry
is_file(dir, name) == dir[name] = "file"

\* the for loop of move_downloads_to_output from entry i of `order` on;
\* the shutil.move of entry fail_at raises (no entry if fail_at > Len(order)).
\* shutil.move renames, and when the rename fails copies the file and then
\* unlinks the source: a move that raises leaves the source in place and,
\* when copy_left, a copy of it in output_dir.  shutil.move of a file onto
\* its own path (output_dir is the downloads directory) succeeds and leaves
\* the file where it is; when it raises nothing has changed.
RECURSIVE move_loop(_, _, _, _, _, _)
move_loop(output_dir, order, i, fail_at, copy_left, acc) ==
    IF i > Len(order) THEN acc
    ELSE LET name == order[i] IN
         IF name \in EXCLUDED
         THEN move_loop(output_dir, order, i + 1, fail_at, copy_left, acc)
         ELSE IF is_file(acc.downloads, name)
              THEN IF i = fail_at
                   THEN IF copy_left /\ output_dir # DOWNLOADS_DIR
                        THEN [acc EXCEPT !.raised = TRUE,
                                         !.output_files = @ \cup {name}]
                        ELSE [acc EXCEPT !.raised = TRUE]
                   ELSE move_loop(output_dir, order, i + 1, fail_at, copy_left,
                            IF output_dir = DOWNLOADS_DIR
                            THEN [acc EXCEPT !.moved_files = Append(@, name)]
                            ELSE [acc EXCEPT !.downloads[name] = "absent",
                                             !.output_files = @ \cup {name},
                                             !.moved_files = Append(@, name)])
              ELSE move_loop(output_dir, order, i + 1, fail_at, copy_left, acc)

\* move_downloads_to_output(output_dir); fail_at = 0: output_dir.mkdir raises.
\* mkdir(parents=True, exist_ok=True) creates the directory unless it exists.
move_downloads_to_output(output_dir, order, fail_at, copy_left) ==
    LET start == [downloads |-> downloads, output_exists |-> output_exists,
                  output_files |-> output_files, moved_files |-> <<>>,
                  raised |-> FALSE]
    IN IF fail_at = 0
       THEN [start EXCEPT !.raised = TRUE]
       ELSE move_loop(output_dir, order, 1, fail_at, copy_left,
                      IF output_dir = DOWNLOADS_DIR THEN start
                      ELSE [start EXCEPT !.output_exists = TRUE])

(***************************************************************************)
(* State machine                                                           *)
(***************************************************************************)
NoDownloads == [n \in Names |-> "absent"]

Init ==
    /\ pc = "Idle"
    /\ cmd = "none"
    /\ invocation = 1
    /\ url = ""
    /\ download = FALSE
    /\ debug = FALSE
    /\ output = ELSEWHERE
    /\ node_on_path \in BOOLEAN
    /\ node_modules \in NodeModulesStates
    /\ environ = EmptyEnv
    /\ env = EmptyEnv
    /\ downloads = NoDownloads
    /\ results_text = ""
    /\ output_exists = FALSE
    /\ output_files = {}
    /\ returncode = <<>>
    /\ data = <<>>
    /\ moved_files = <<>>
    /\ npm_calls = 0
    /\ npm_returncode = <<>>
    /\ node_calls = 0
    /\ exit_code = <<>>
    /\ displayed = <<>>
    /\ failure = "none"
    /\ fresh = {}

\* sys.exit(1) after a failure
Fail(kind) ==
    /\ pc' = "Error"
    /\ exit_code' = <<1>>
    /\ failure' = kind

\* outcomes of subprocess.run(["npm", "install"]): <<>> when it raises (npm not
\* found, output not decodable), else <<the exit status>>
NpmOutcomes == {<<>>, <<0>>, <<1>>}

\* install_npm_dependencies(): returns result.returncode == 0, False when
\* subprocess.run raised
install_returns_true(outcome) == outcome = <<0>>

\* where a command goes on once the dependencies are there: scrape() runs the
\* scraper, install() returns
DependenciesReady ==
    IF cmd = "scrape"
    THEN pc' = "BuildEnv" /\ UNCHANGED <<exit_code, failure>>
    ELSE pc' = "Done" /\ exit_code' = <<0>> /\ UNCHANGED failure

\* webscrape scrape URL [--download] [-o OUTPUT] [--debug]
ScrapeStart ==
    /\ pc = "Idle"
    /\ \E r \in Requests :
          /\ url' = r.url
          /\ download' = r.download
          /\ debug' = r.debug
          /\ output' = r.output
    /\ pc' = "Validating"
    /\ cmd' = "scrape"
    /\ UNCHANGED <<invocation, node_on_path, node_modules, environ, env, downloads,
                   results_text, output_exists, output_files, returncode, data,
                   moved_files, npm_calls, npm_returncode, node_calls, exit_code, displayed,
                   failure, fresh>>

\* scrape(): URL validation
ValidateUrl ==
    /\ pc = "Validating"
    /\ IF ~url_is_valid(url)
       THEN Fail("ValidationError")
       ELSE pc' = "CheckNode" /\ UNCHANGED <<exit_code, failure>>
    /\ UNCHANGED <<cmd, invocation, url, download, debug, output, node_on_path,
                   node_modules, environ, env, downloads, results_text,
                   output_exists, output_files, returncode, data, moved_files,
                   npm_calls, npm_returncode, node_calls, displayed, fresh>>

\* scrape(): Node.js check
CheckNode ==
    /\ pc = "CheckNode"
    /\ IF ~check_node_installed
       THEN Fail("RuntimeMissing")
       ELSE pc' = "CheckDeps" /\ UNCHANGED <<exit_code, failure>>
    /\ UNCHANGED <<cmd, invocation, url, download, debug, output, node_on_path,
                   node_modules, environ, env, downloads, results_text,
                   output_exists, output_files, returncode, data, moved_files,
                   npm_calls, npm_returncode, node_calls, displayed, fresh>>

\* scrape(), install(): `if not check_npm_dependencies()` / `if
\* check_npm_dependencies()`; install_npm_dependencies is entered when the
\* dependencies are not installed
EnsureDependencies ==
    /\ pc = "CheckDeps"
    /\ IF check_npm_dependencies
       THEN DependenciesReady
       ELSE pc' = "InstallDeps" /\ UNCHANGED <<exit_code, failure>>
    /\ UNCHANGED <<cmd, invocation, url, download, debug, output, node_on_path,
                   node_modules, environ, env, downloads, results_text,
                   output_exists, output_files, returncode, data, moved_files,
                   npm_calls, npm_returncode, node_calls, displayed, fresh>>

\* install_npm_dependencies(): subprocess.run(["npm", "install"]) is called and
\* blocks until npm ends
install_npm_dependencies ==
    /\ pc = "InstallDeps"
    /\ npm_calls' = npm_calls + 1
    /\ pc' = "NpmRunning"
    /\ UNCHANGED <<cmd, invocation, url, download, debug, output, node_on_path,
                   node_modules, environ, env, downloads, results_text,
                   output_exists, output_files, returncode, data, moved_files,
                   npm_returncode, node_calls, exit_code, displayed, failure,
                   fresh>>

\* the child of subprocess.run (npm install), while install_npm_dependencies
\* waits for it: it leaves node_modules in any state (unchanged if npm could
\* not be executed)
NpmRuns ==
    /\ pc = "NpmRunning"
    /\ node_modules' \in NodeModulesStates
    /\ pc' = "NpmReturning"
    /\ UNCHANGED <<cmd, invocation, url, download, debug, output, node_on_path,
                   environ, env, downloads, results_text, output_exists,
                   output_files, returncode, data, moved_files, npm_calls,
                   npm_returncode, node_calls, exit_code, displayed, failure,
                   fresh>>

\* install_npm_dependencies(): how subprocess.run ends (it raises, or npm has
\* exited with a status), the value returned, and the caller's test of it
NpmReturns ==
    /\ pc = "NpmReturning"
    /\ \E outcome \in NpmOutcomes :
          /\ npm_returncode' = outcome
          /\ IF install_returns_true(outcome)
             THEN DependenciesReady
             ELSE Fail("DependencyInstallFailed")
    /\ UNCHANGED <<cmd, invocation, url, download, debug, output, node_on_path,
                   node_modules, environ, env, downloads, results_text,
                   output_exists, output_files, returncode, data, moved_files,
                   npm_calls, node_calls, displayed, fresh>>

\* run_scraper(): env = os.environ.copy() and the two flags; the environment of
\* the CLI process is an input of this step, the only one that reads it
BuildEnv ==
    /\ pc = "BuildEnv"
    /\ \E e \in Environs :
          /\ environ' = e
          /\ env' = build_env(e, download, debug)
    /\ pc' = "Spawn"
    /\ UNCHANGED <<cmd, invocation, url, download, debug, output, node_on_path,
                   node_modules, downloads, results_text,
                   output_exists, output_files, returncode, data, moved_files,
                   npm_calls, npm_returncode, node_calls, exit_code, displayed, failure, fresh>>

\* scrape(): `if data:` on the value run_scraper returned
ReturnToScrape(obj) ==
    IF truthy(obj)
    THEN pc' = "Presenting" /\ UNCHANGED <<exit_code, failure>>
    ELSE Fail("FalsyResult")

\* run_scraper(): subprocess.run(["node", scraper_path, url], env=env, timeout=300)
\* is called.  env is handed to the child here; it and the os.environ it was
\* copied from are not read again and are dropped from the state.
SpawnScraper ==
    /\ pc = "Spawn"
    /\ node_calls' = node_calls + 1
    /\ environ' = EmptyEnv
    /\ env' = EmptyEnv
    /\ pc' = "Running"
    /\ UNCHANGED <<cmd, invocation, url, download, debug, output, node_on_path,
                   node_modules, downloads, results_text, output_exists,
                   output_files, returncode, data, moved_files, npm_calls,
                   npm_returncode, exit_code, displayed, failure, fresh>>

\* the child of subprocess.run (scraper.js), while run_scraper waits for it:
\* it writes the entries `written` of the downloads directory (none if node
\* could not be executed), with kinds `kinds` and results text `text`
ScraperRuns ==
    /\ pc = "Running"
    /\ \E written \in SUBSET Names :
       \E kinds \in {k \in [written -> {"file", "dir"}] :
                       \A n \in written : k[n] \in KindsOf(n)},
          text \in (IF RESULTS_NAME \in written THEN ResultTexts ELSE {results_text}) :
          /\ downloads' = [n \in Names |->
                              IF n \in written THEN kinds[n] ELSE downloads[n]]
          /\ results_text' = text
          /\ fresh' = {n \in written : n = RESULTS_NAME
                                        \/ (n \in ArtefactNames /\ kinds[n] = "file")}
    /\ pc' = "Returning"
    /\ UNCHANGED <<cmd, invocation, url, download, debug, output, node_on_path,
                   node_modules, environ, env, output_exists, output_files,
                   returncode, data, moved_files, npm_calls, npm_returncode,
                   node_calls, exit_code, displayed, failure>>

\* run_scraper(): how subprocess.run ends, and the returncode test.  Either it
\* raises an exception other than TimeoutExpired (node cannot be executed, or
\* the output of the child cannot be decoded), caught by `except Exception`; or
\* the child has run for `elapsed` seconds: TimeoutExpired beyond the timeout,
\* else it has exited with `code`.
ScraperReturns ==
    /\ pc = "Returning"
    /\ \/ Fail("RunError") /\ UNCHANGED returncode
       \/ \E elapsed \in Durations :
            IF elapsed > TIMEOUT
            THEN Fail("Timeout") /\ UNCHANGED returncode
            ELSE \E code \in {0, 1} :
                   /\ returncode' = <<code>>
                   /\ IF code # 0
                      THEN Fail("SubprocessFailed")
                      ELSE pc' = "Loading" /\ UNCHANGED <<exit_code, failure>>
    /\ UNCHANGED <<cmd, invocation, url, download, debug, output, node_on_path,
                   node_modules, environ, env, downloads, results_text,
                   output_exists, output_files, data, moved_files, npm_calls,
                   npm_returncode, node_calls, displayed, fresh>>

\* run_scraper(): results_file.exists()
results_file_exists == downloads[RESULTS_NAME] # "absent"

\* mutant: a missing results file is read as an empty object
load_results_missing_ok(exists, text, dl) ==
    LET parsed == IF exists THEN json_load(text) ELSE JsonObject({}, {}, NoVal) IN
    IF parsed = JSONDecodeError
    THEN [next |-> "MalformedResults", data |-> <<>>]
    ELSE [next |-> IF dl THEN "Relocating" ELSE "Return", data |-> <<parsed>>]

\* mutant: the files are moved whether or not download was requested
load_results_always_move(exists, text, dl) ==
    IF ~exists
    THEN [next |-> "MissingResultsFile", data |-> <<>>]
    ELSE LET parsed == json_load(text) IN
         IF parsed = JSONDecodeError
         THEN [next |-> "MalformedResults", data |-> <<>>]
         ELSE [next |-> "Relocating", data |-> <<parsed>>]

\* run_scraper(): the block from results_file.exists() to the `if download:` test.
\* next is the failure, "Relocating", or "Return" (return data without moving).
load_results(exists, text, dl) ==
    IF ~exists
    THEN [next |-> "MissingResultsFile", data |-> <<>>]
    ELSE LET parsed == json_load(text) IN
         IF parsed = JSONDecodeError
         THEN [next |-> "MalformedResults", data |-> <<>>]
         ELSE [next |-> IF dl THEN "Relocating" ELSE "Return", data |-> <<parsed>>]

\* run_scraper(): load the results file; return when not downloading
LoadResults ==
    /\ pc = "Loading"
    /\ LET r == load_results(results_file_exists, results_text, download) IN
       /\ data' = r.data
       /\ CASE r.next = "Relocating" -> pc' = "Relocating" /\ UNCHANGED <<exit_code, failure>>
            [] r.next = "Return" -> ReturnToScrape(r.data[1])
            [] OTHER -> Fail(r.next)
    /\ UNCHANGED <<cmd, invocation, url, download, debug, output, node_on_path,
                   node_modules, environ, env, downloads, results_text,
                   output_exists, output_files, returncode, moved_files,
                   npm_calls, npm_returncode, node_calls, displayed, fresh>>

\* run_scraper(): move_downloads_to_output(output_dir) and the return after it.
\* The mkdir of a directory that exists (the downloads directory does, the
\* results file was read from it) cannot raise.
Relocate ==
    /\ pc = "Relocating"
    /\ \E order \in IterOrders(downloads) :
       \E fail_at \in (IF output = DOWNLOADS_DIR THEN {} ELSE {0})
                       \cup {Len(order) + 1}
                       \cup {i \in 1..Len(order) : order[i] \in ArtefactNames} :
       \E copy_left \in (IF fail_at \in 1..Len(order) /\ output # DOWNLOADS_DIR
                         THEN BOOLEAN ELSE {FALSE}) :
          LET r == move_downloads_to_output(output, order, fail_at, copy_left) IN
          /\ downloads' = r.downloads
          /\ output_exists' = r.output_exists
          /\ output_files' = r.output_files
          /\ moved_files' = r.moved_files
          /\ IF r.raised
             THEN data' = <<>> /\ Fail("RelocationIOError")
             ELSE UNCHANGED data /\ ReturnToScrape(data[1])
    /\ UNCHANGED <<cmd, invocation, url, download, debug, output, node_on_path,
                   node_modules, environ, env, results_text, returncode,
                   npm_calls, npm_returncode, node_calls, displayed, fresh>>

\* scrape(): display_results(data, output, download); an exception it raises is
\* not caught anywhere and ends the process with status 1
Present ==
    /\ pc = "Presenting"
    /\ LET r == display_results(data[1], download) IN
       /\ displayed' = <<r.shown>>
       /\ IF r.raised # "none"
          THEN Fail("DisplayError")
          ELSE pc' = "Done" /\ exit_code' = <<0>> /\ UNCHANGED failure
    /\ UNCHANGED <<cmd, invocation, url, download, debug, output, node_on_path,
                   node_modules, environ, env, downloads, results_text,
                   output_exists, output_files, returncode, data, moved_files,
                   npm_calls, npm_returncode, node_calls, fresh>>

\* webscrape install: the command starts with the Node.js check
InstallCommand ==
    /\ pc = "Idle"
    /\ cmd' = "install"
    /\ IF ~check_node_installed
       THEN Fail("RuntimeMissing")
       ELSE pc' = "CheckDeps" /\ UNCHANGED <<exit_code, failure>>
    /\ UNCHANGED <<invocation, url, download, debug, output, node_on_path,
                   node_modules, environ, env, downloads, results_text,
                   output_exists, output_files, returncode, data, moved_files,
                   npm_calls, npm_returncode, node_calls, displayed, fresh>>

\* the process has exited; the next CLI invocation starts from the files left behind
NextInvocation ==
    /\ pc \in {"Done", "Error"}
    /\ invocation < MaxInvocations
    /\ invocation' = invocation + 1
    /\ pc' = "Idle"
    /\ cmd' = "none"
    /\ url' = ""
    /\ download' = FALSE
    /\ debug' = FALSE
    /\ output' = ELSEWHERE
    /\ node_on_path' \in BOOLEAN
    /\ environ' = EmptyEnv
    /\ env' = EmptyEnv
    /\ returncode' = <<>>
    /\ data' = <<>>
    /\ moved_files' = <<>>
    /\ npm_calls' = 0
    /\ npm_returncode' = <<>>
    /\ node_calls' = 0
    /\ exit_code' = <<>>
    /\ displayed' = <<>>
    /\ failure' = "none"
    /\ fresh' = {}
    /\ UNCHANGED <<node_modules, downloads, results_text, output_exists, output_files>>

Next ==
    \/ ScrapeStart
    \/ ValidateUrl
    \/ CheckNode
    \/ EnsureDependencies
    \/ install_npm_dependencies
    \/ NpmRuns
    \/ NpmReturns
    \/ BuildEnv
    \/ SpawnScraper
    \/ ScraperRuns
    \/ ScraperReturns
    \/ LoadResults
    \/ Relocate
    \/ Present
    \/ InstallCommand
    \/ NextInvocation

Spec == Init /\ [][Next]_vars

TypeOK ==
    /\ pc \in {"Idle", "Validating", "CheckNode", "CheckDeps", "InstallDeps",
               "NpmRunning", "NpmReturning", "BuildEnv", "Spawn",
               "Running", "Returning", "Loading", "Relocating", "Presenting", "Done", "Error"}
    /\ cmd \in {"none", "scrape", "install"}
    /\ invocation \in 1..MaxInvocations
    /\ url \in Urls
    /\ download \in BOOLEAN /\ debug \in BOOLEAN /\ node_on_path \in BOOLEAN
    /\ output \in OutputDirs
    /\ node_modules \in NodeModulesStates
    /\ downloads \in [Names -> {"absent", "file", "dir"}]
    /\ output_files \subseteq Names
    /\ exit_code \in {<<>>, <<0>>, <<1>>} /\ returncode \in {<<>>, <<0>>, <<1>>}
    /\ npm_returncode \in NpmOutcomes
    /\ Len(data) <= 1 /\ Len(displayed) <= 1

(***************************************************************************)
(* Properties                                                              *)
(***************************************************************************)
Range(seq) == {seq[i] : i \in 1..Len(seq)}

\* u begins with http:// or https://, stated on the prefixes of u
SchemeQualified(u) ==
    \E n \in 0..Len(u) : SubSeq(u, 1, n) \in {"http://", "https://"}

NoSubprocess == npm_calls = 0 /\ node_calls = 0

ExitedNonZero == exit_code # <<>> /\ exit_code # <<0>>

\* C1: a scrape run whose URL starts with neither http:// nor https:// fails
\* at validation with a non-zero exit, and spawns neither npm nor node.
C1_BadUrlFailsBeforeSpawn ==
    (cmd = "scrape" /\ ~SchemeQualified(url)) =>
        /\ NoSubprocess
        /\ pc \in {"Validating", "Error"}
        /\ pc = "Error" => (failure = "ValidationError" /\ ExitedNonZero)

C1_Witness ==
    /\ cmd = "scrape" /\ url = "http:/example.com"
    /\ pc = "Error" /\ exit_code = <<1>> /\ NoSubprocess

Has(e, name, value) == name \in DOMAIN e /\ e[name] = value

SameEntry(e1, e2, name) ==
    /\ (name \in DOMAIN e1) = (name \in DOMAIN e2)
    /\ name \in DOMAIN e1 => e1[name] = e2[name]

\* C2 as claimed: the subprocess environment has DOWNLOAD=true iff download
\* was requested and DEBUG=true iff debug was requested, and every other
\* variable equals the parent's.
C2_FlagsIffRequested ==
    pc = "Spawn" =>
        /\ Has(env, "DOWNLOAD", "true") = download
        /\ Has(env, "DEBUG", "true") = debug
        /\ \A n \in EnvNames \ {"DOWNLOAD", "DEBUG"} : SameEntry(env, environ, n)

\* C2 amended: the subprocess environment has DOWNLOAD=true when download was
\* requested and otherwise the parent's DOWNLOAD (set or unset), DEBUG=true
\* when debug was requested and otherwise the parent's DEBUG, and every other
\* variable equals the parent's.
C2_FlagsOverrideParent ==
    pc = "Spawn" =>
        /\ IF download THEN Has(env, "DOWNLOAD", "true")
                       ELSE SameEntry(env, environ, "DOWNLOAD")
        /\ IF debug THEN Has(env, "DEBUG", "true")
                    ELSE SameEntry(env, environ, "DEBUG")
        /\ \A n \in EnvNames \ {"DOWNLOAD", "DEBUG"} : SameEntry(env, environ, n)
        /\ DOMAIN env \subseteq EnvNames

C2_Witness ==
    /\ pc = "Spawn" /\ download /\ ~debug
    /\ Has(environ, "DOWNLOAD", "false") /\ "DEBUG" \notin DOMAIN environ
    /\ Has(env, "DOWNLOAD", "true") /\ "DEBUG" \notin DOMAIN env
    /\ Has(env, "HOME", "/root")

\* the display shows the title and the counts of obj, with the placeholder
\* title and empty sequences for the keys obj does not have
DisplayedWithDefaults(obj) ==
    LET field(k) == IF k \in obj.keys THEN obj.val[k] ELSE <<>> IN
    /\ Len(displayed) = 1
    /\ displayed[1].title = <<IF "title" \in obj.keys THEN obj.val.title
                               ELSE "Unknown Page">>
    /\ \E i \in 1..Len(displayed[1].rows) :
          displayed[1].rows[i] = <<"Files found", Len(field("files"))>>
    /\ \E i \in 1..Len(displayed[1].rows) :
          displayed[1].rows[i] = <<"Images found", Len(field("images"))>>
    /\ \E i \in 1..Len(displayed[1].rows) :
          displayed[1].rows[i] = <<"Links found", Len(field("links"))>>

\* C3 as claimed: when the subprocess exited 0 and the results file held a JSON
\* object (and no relocation error occurred), the run presents it and ends
\* successfully whichever keys are absent, an object with no keys included.
C3_ValidObjectIsPresented ==
    (cmd = "scrape" /\ pc \in {"Done", "Error"} /\ returncode = <<0>> /\ data # <<>>
        /\ data[1].type = "object") =>
        /\ pc = "Done"
        /\ exit_code = <<0>>
        /\ DisplayedWithDefaults(data[1])

Movable(dir) == {n \in Names : dir[n] = "file"} \ EXCLUDED

\* C4 as claimed: when the relocation of a scrape run with download completes
\* and the run goes on to present, the names moved are exactly the regular
\* files of the downloads directory minus scrape-results.json and
\* page-screenshot.png, whatever the enumeration order; they are in the output
\* directory and gone from the downloads directory; every other entry stays
\* in place.
C4_RelocatedSet ==
    [][ (pc = "Relocating" /\ pc' = "Presenting") =>
          /\ Range(moved_files') = Movable(downloads)
          /\ Len(moved_files') = Cardinality(Movable(downloads))
          /\ output = ELSEWHERE =>
                /\ output_exists'
                /\ output_files' = output_files \cup Movable(downloads)
          /\ \A n \in Names :
                downloads'[n] = IF n \in Movable(downloads) THEN "absent" ELSE downloads[n]
      ]_vars

\* the braces of a text are balanced
Count(text, ch) == Cardinality({i \in 1..Len(text) : SubSeq(text, i, i) = ch})
Balanced(text) == Count(text, "{") = Count(text, "}") /\ Count(text, "[") = Count(text, "]")

\* nothing went wrong in the run, stated on what the run observed
PipelineHealthy ==
    /\ SchemeQualified(url)
    /\ node_on_path
    /\ \/ npm_calls = 0 /\ node_modules = "puppeteer"
       \/ npm_calls = 1 /\ npm_returncode = <<0>>
    /\ node_calls = 1
    /\ returncode = <<0>>
    /\ downloads[RESULTS_NAME] = "file"
    /\ Balanced(results_text)
    /\ data # <<>>
    /\ (download /\ output = ELSEWHERE) => Movable(downloads) = {}

\* C5 as claimed: every failure of a scrape run (bad URL, missing runtime,
\* failed install, timeout, non-zero exit, malformed results, relocation
\* failure, or any other) ends in Error with a non-zero exit and without
\* display_results having printed anything; what is displayed is displayed by
\* a run in which nothing went wrong and which ends with exit 0.
C5_FailuresAbort ==
    /\ failure # "none" => pc = "Error"
    /\ pc = "Error" => (ExitedNonZero /\ displayed = <<>>)
    /\ (cmd = "scrape" /\ pc \in {"Presenting", "Done"}) => PipelineHealthy
    /\ displayed # <<>> => (cmd = "scrape" /\ pc = "Done" /\ exit_code = <<0>>)

\* C6: if the subprocess exited 0 and the results file does not exist, the run
\* fails: nothing is presented, nothing is relocated even with download
\* requested, and the exit is non-zero.
C6_MissingResultsFails ==
    (cmd = "scrape" /\ returncode = <<0>> /\ downloads[RESULTS_NAME] = "absent"
        /\ pc # "Loading") =>
        /\ pc = "Error"
        /\ failure = "MissingResultsFile"
        /\ ExitedNonZero
        /\ displayed = <<>>
        /\ data = <<>>
        /\ moved_files = <<>>

C6_Witness ==
    /\ cmd = "scrape" /\ pc = "Error" /\ failure = "MissingResultsFile"
    /\ download /\ returncode = <<0>>
    /\ downloads[RESULTS_NAME] = "absent" /\ downloads["a.pdf"] = "file"
    /\ moved_files = <<>> /\ ~output_exists

\* C7: with node not on the search path, scrape and install both fail with a
\* non-zero exit and spawn neither npm install nor the scraper.
C7_NoRuntimeNoSubprocess ==
    (cmd \in {"scrape", "install"} /\ ~node_on_path) =>
        /\ NoSubprocess
        /\ pc \in {"Validating", "CheckNode", "Error"}
        /\ cmd = "install" => pc = "Error"
        /\ pc = "Error" => ExitedNonZero

C7_Witness ==
    /\ cmd = "scrape" /\ SchemeQualified(url) /\ ~node_on_path
    /\ node_modules = "absent"
    /\ pc = "Error" /\ failure = "RuntimeMissing" /\ exit_code = <<1>> /\ NoSubprocess

\* C8: the CLI changes the downloads directory, the output directory or the
\* list of moved files only in the relocation step, which is taken only when
\* download was requested and the subprocess exited 0 and the results were
\* loaded; otherwise both directories are left as they are (the step that runs
\* the subprocess excepted, for the downloads directory).
C8_RelocationOnlyOnDownload ==
    /\ [](pc = "Relocating" =>
            (download /\ node_calls = 1 /\ returncode = <<0>> /\ data # <<>>))
    /\ [][ (/\ invocation' = invocation
            /\ \/ (pc # "Running" /\ downloads' # downloads)
               \/ output_exists' # output_exists
               \/ output_files' # output_files
               \/ moved_files' # moved_files)
           => pc = "Relocating" ]_vars

C8_Witness ==
    /\ cmd = "scrape" /\ pc = "Done" /\ ~download
    /\ downloads["a.pdf"] = "file" /\ downloads["b.zip"] = "file"
    /\ moved_files = <<>> /\ ~output_exists /\ output_files = {}

PipelineOrder == <<"Idle", "Validating", "CheckNode", "CheckDeps", "InstallDeps",
                   "NpmRunning", "NpmReturning", "BuildEnv", "Spawn",
                   "Running", "Returning", "Loading", "Relocating", "Presenting">>
\* position in the pipeline; Done and Error are both last
Rank(p) == IF p \in {"Done", "Error"} THEN Len(PipelineOrder) + 1
           ELSE CHOOSE i \in 1..Len(PipelineOrder) : PipelineOrder[i] = p

\* C9: within an invocation the pipeline only moves forward, no step twice;
\* npm install is called at most once, only by the install step, and the
\* install step is entered only from the dependency check and only when the
\* dependencies are not installed; the scraper is spawned at most once; when
\* npm install has returned with a failure (a non-zero status, or it could
\* not be run) the next step is the exit with a non-zero status, and the
\* scraper is never spawned in a run whose install ran and did not succeed.
C9_SequentialNoRetry ==
    /\ [][invocation' = invocation => Rank(pc') > Rank(pc)]_vars
    /\ [](npm_calls <= 1 /\ node_calls <= 1)
    /\ [][npm_calls' > npm_calls => pc = "InstallDeps"]_vars
    /\ [][pc' = "InstallDeps" => (pc = "CheckDeps" /\ node_modules # "puppeteer")]_vars
    /\ [][(pc = "NpmReturning" /\ npm_returncode' # <<0>>) =>
            (pc' = "Error" /\ exit_code' = <<1>> /\ node_calls' = 0)]_vars
    /\ []((cmd = "scrape" /\ npm_calls = 1 /\ node_calls > 0) => npm_returncode = <<0>>)
    /\ [](failure = "DependencyInstallFailed" => (node_calls = 0 /\ pc = "Error"))

C9_Witness ==
    /\ cmd = "scrape" /\ pc = "Done" /\ download
    /\ npm_calls = 1 /\ node_calls = 1 /\ moved_files # <<>>

\* C10 as claimed: the results a run presents and the files it relocates were
\* written by that run's own subprocess, never left behind by an earlier run.
C10_OwnResultsOnly ==
    (cmd = "scrape" /\ pc \in {"Presenting", "Done"}) =>
        /\ RESULTS_NAME \in fresh
        /\ Range(moved_files) \subseteq fresh

====
